---------------------------- MODULE Spec2Model ----------------------------
(***************************************************************************)
(* A model of the UUID Resolver content scripts:                           *)
(*   - UEMAPIClient (content/uem-api-client.js): the in-page resolver      *)
(*     client and its resolution cache;                                    *)
(*   - the orchestration of content/content-script.js (initialisation,     *)
(*     scans, timers, runtime messages);                                   *)
(*   - UUIDDetector and UIEnhancer (content/content-script-simple.js).     *)
(*                                                                         *)
(* Two specifications share the client's operators:                        *)
(*   SpecClient  the client driven by an arbitrary caller, with a clock;   *)
(*   SpecPage    the content script on a page of UUID-bearing locations.   *)
(***************************************************************************)
EXTENDS Integers, Sequences, FiniteSets, TLC

VARIABLES
    \* ---- UEMAPIClient and its environment
    now,            \* Date.now(), in milliseconds
    cache,          \* this.cache : cacheKey -> {data, timestamp} (or no entry)
    pending,        \* resolveUUID messages the authority has not answered
    calls,          \* history of resolveUUID, per (uuid, entityType)
    cleared,        \* clearCache() has been executed
    settings,       \* the record chrome.storage.sync holds
    lastOp,         \* the operation executed last, and what it did
    \* ---- content script, detector and enhancer
    phase,          \* position of the content script's async main function
    dom,            \* the host page: location -> what it holds
    registered,     \* timers, listeners and intervals currently registered
    detectedUUIDs,  \* UUIDDetector.detectedUUIDs
    processedElements, \* UIEnhancer.processedElements
    tasks,          \* enhanceUI invocations suspended at their await
    nodes,          \* nodes the enhancer inserted into the document
    stats,          \* counters of scans, requests and injections
    monitors,       \* the detector's periodic checks and value pollers
    \* ---- user interface
    popup,          \* the settings page: form, timers, saves in flight
    toasts          \* the toasts in .uuid-resolver-toast-container

clientVars == <<now, cache, pending, calls, cleared, settings, lastOp>>
pageVars   == <<phase, dom, registered, detectedUUIDs, processedElements,
                tasks, nodes, stats, monitors>>
vars       == <<now, cache, pending, calls, cleared, settings, lastOp, phase, dom,
                registered, detectedUUIDs, processedElements, tasks, nodes,
                stats, monitors, popup, toasts>>

---------------------------------------------------------------------------
(* Bounds of the model.                                                    *)

\* the clock advances MaxTicks times, TickMs milliseconds at a time
MaxTicks == 3
\* resolveUUID invocations in SpecClient
MaxCalls == 3
\* scans of the page in SpecPage
MaxScans == 2
\* control messages the content script handles in SpecPage
MaxMessages == 1

---------------------------------------------------------------------------
(* Values.                                                                 *)

Minute == 60 * 1000

\* one step of the clock: half of the default expiry, so that entries are
\* seen younger than, exactly as old as, and older than the expiry
TickMs == 150 * 1000

\* UUID texts: u1 and u2 are two UUIDs written in lowercase, U1 is u1
\* written in uppercase
UUIDs == {"u1", "u2", "U1"}

\* String.prototype.toLowerCase on a UUID text
toLowerCase(u) == IF u = "U1" THEN "u1" ELSE u

EntityTypes ==
    {"tag", "application", "profile", "script", "product",
     "organization-group"}

\* the (uuid, entityType) pairs the callers of SpecClient pass
CallPairs == {<<"u1", "script">>, <<"u2", "tag">>}

\* cacheKey = `${uuid}-${entityType}`; a UUID has a fixed length, so the
\* concatenation determines both parts and the key is the pair.
CacheKey(uuid, entityType) == <<uuid, entityType>>

Keys == UUIDs \X EntityTypes

\* JavaScript's undefined, for a field that is not set
Undefined == "undefined"

\* What chrome.runtime.sendMessage can do to the awaiting client:
\*   success        resolves to {success: true, data}
\*   failure        resolves to {success: false, error: <message>}
\*   failureNoError resolves to {success: false} (no error text)
\*   noResponse     resolves to undefined (no listener answered)
\*   rejected       the promise rejects with an Error
Outcomes == {"success", "failure", "failureNoError", "noResponse", "rejected"}

\* The entity the authority returns for a pair.
AuthorityData(uuid, entityType) ==
    [uuid  |-> uuid,
     name  |-> <<"entity of ", uuid>>,
     type  |-> entityType,
     error |-> Undefined]

\* error.message in the catch block of resolveUUID
ErrorMessage(outcome) ==
    CASE outcome = "failure"        -> "404 Not Found"
      [] outcome = "failureNoError" -> "Unknown error from background script"
      [] outcome = "noResponse"     ->
            "Cannot read properties of undefined (reading 'success')"
      [] outcome = "rejected"       ->
            "Could not establish connection. Receiving end does not exist."
      [] OTHER                      -> Undefined

NoValue == [uuid |-> Undefined, name |-> <<>>, type |-> Undefined,
            error |-> Undefined]

NoEntry == [present |-> FALSE, data |-> NoValue, timestamp |-> 0]

EmptyCache == [k \in Keys |-> NoEntry]

---------------------------------------------------------------------------
(* UEMAPIClient.                                                           *)

\* this.cacheExpiry, set once by the constructor
cacheExpiry == 5 * 60 * 1000

\* getCachedResult without the age test
getCachedResultNoExpiry(c, key, t) ==
    IF c[key].present THEN c[key] ELSE NoEntry

\* getCachedResult(key): the entry, if there is one and it is young enough
getCachedResult(c, key, t) ==
    IF c[key].present /\ t - c[key].timestamp < cacheExpiry
    THEN c[key]
    ELSE NoEntry

\* setCachedResult(key, data)
setCachedResult(c, key, data, t) ==
    [c EXCEPT ![key] = [present |-> TRUE, data |-> data, timestamp |-> t]]

\* clearCache that drops only the entries that have expired
clearCacheExpiredOnly(c, t) ==
    [k \in Keys |-> IF c[k].present /\ t - c[k].timestamp < cacheExpiry
                    THEN c[k] ELSE NoEntry]

\* clearCache(): this.cache.clear()
clearCache(c, t) == EmptyCache

\* resolveUUID without its try/catch: a failure propagates to the caller
ResolveReturnNoCatch(uuid, entityType, outcome) ==
    IF outcome = "success"
    THEN [threw |-> FALSE, value |-> AuthorityData(uuid, entityType)]
    ELSE [threw |-> TRUE, value |-> NoValue]

\* resolveUUID after the await: what the call hands to its caller
ResolveReturn(uuid, entityType, outcome) ==
    IF outcome = "success"
    THEN [threw |-> FALSE, value |-> AuthorityData(uuid, entityType)]
    ELSE [threw |-> FALSE,
          value |-> [uuid  |-> uuid,
                     name  |-> <<"Resolution Failed: ", ErrorMessage(outcome)>>,
                     type  |-> entityType,
                     error |-> ErrorMessage(outcome)]]

\* resolveUUID that never stores a result
ResolveStoreNothing(c, uuid, entityType, outcome, t) == c

\* resolveUUID that stores whatever it returns, failures included
ResolveStoreAll(c, uuid, entityType, outcome, t) ==
    setCachedResult(c, CacheKey(uuid, entityType),
                    ResolveReturn(uuid, entityType, outcome).value, t)

\* resolveUUID after the await: the cache it leaves
ResolveStore(c, uuid, entityType, outcome, t) ==
    IF outcome = "success"
    THEN setCachedResult(c, CacheKey(uuid, entityType),
                         AuthorityData(uuid, entityType), t)
    ELSE c

---------------------------------------------------------------------------
(* SpecClient: the client and an arbitrary caller.                         *)

\* History kept per (uuid, entityType), for stating the claims:
\*   okAt      Date.now() when the last successful response was handled
\*             since the last clearCache (-1: none)
\*   failAt    the same for the last failed resolution (-1: none)
\*   called    a resolveUUID for the pair started since the last clearCache
\*   nCalls    resolveUUID invocations for the pair
\*   nSent     resolveUUID messages sent to the authority for the pair
NoHistory == [okAt |-> -1, failAt |-> -1, called |-> FALSE,
              nCalls |-> 0, nSent |-> 0]

Age(at) == IF at = -1 THEN -1 ELSE now - at

TotalCalls == calls[<<"u1", "script">>].nCalls + calls[<<"u2", "tag">>].nCalls

InitPage ==
    /\ phase = "idle"
    /\ dom = <<>>
    /\ registered = {}
    /\ detectedUUIDs = {}
    /\ processedElements = {}
    /\ tasks = <<>>
    /\ nodes = <<>>
    /\ stats = <<>>
    /\ monitors = <<>>

SettingsTimeouts == {1 * Minute, 5 * Minute, 10 * Minute}

InitClient ==
    /\ now = 0
    /\ cache = EmptyCache
    /\ pending = [k \in Keys |-> 0]
    /\ calls = [k \in CallPairs |-> NoHistory]
    /\ cleared = FALSE
    /\ settings \in [enabled : {TRUE}, cacheTimeout : SettingsTimeouts]
    /\ lastOp = [op |-> "construct"]
    /\ InitPage
    /\ popup = <<>>
    /\ toasts = <<>>

\* Date.now() advances
Tick ==
    /\ now < MaxTicks * TickMs
    /\ now' = now + TickMs
    /\ lastOp' = [op |-> "tick"]
    /\ UNCHANGED <<popup, toasts, cache, pending, calls, cleared, settings>>
    /\ UNCHANGED pageVars

\* a caller invokes resolveUUID(uuid, entityType): the part before the await.
\* lastOp records what the call saw and did.
Resolve(uuid, entityType) ==
    LET key == CacheKey(uuid, entityType)
        hit == getCachedResult(cache, key, now)
        h   == calls[key]
    IN  /\ TotalCalls < MaxCalls
        /\ pending' = IF hit.present THEN pending
                      ELSE [pending EXCEPT ![key] = @ + 1]
        /\ calls' = [calls EXCEPT ![key] =
               [h EXCEPT !.called = TRUE,
                         !.nCalls = @ + 1,
                         !.nSent = IF hit.present THEN @ ELSE @ + 1]]
        /\ lastOp' = [op |-> "resolveUUID", uuid |-> uuid, type |-> entityType,
                      sent |-> ~hit.present,
                      value |-> hit.data,
                      entryAge |-> IF cache[key].present
                                   THEN now - cache[key].timestamp ELSE -1,
                      okAge |-> Age(h.okAt),
                      failAge |-> Age(h.failAt),
                      firstAfterClear |-> cleared /\ ~h.called]
        /\ UNCHANGED <<popup, toasts, now, cache, cleared, settings>>
        /\ UNCHANGED pageVars

\* the authority's answer arrives: the part of resolveUUID after the await.
\* lastOp records what the call handed to its caller.
Respond(uuid, entityType, outcome) ==
    LET key == CacheKey(uuid, entityType)
        r   == ResolveReturn(uuid, entityType, outcome)
    IN  /\ pending[key] > 0
        /\ pending' = [pending EXCEPT ![key] = @ - 1]
        /\ cache' = ResolveStore(cache, uuid, entityType, outcome, now)
        /\ calls' = [calls EXCEPT ![key] =
               IF outcome = "success" THEN [@ EXCEPT !.okAt = now]
               ELSE [@ EXCEPT !.failAt = now]]
        /\ lastOp' = [op |-> "respond", uuid |-> uuid, type |-> entityType,
                      outcome |-> outcome, threw |-> r.threw,
                      value |-> r.value]
        /\ UNCHANGED <<popup, toasts, now, cleared, settings>>
        /\ UNCHANGED pageVars

\* the 'clearCache' message: apiClient.clearCache(). lastOp records the
\* pairs that had an unexpired entry.
ClearCacheMessage ==
    /\ cache' = clearCache(cache, now)
    /\ cleared' = TRUE
    /\ calls' = [k \in CallPairs |->
                    [calls[k] EXCEPT !.okAt = -1, !.failAt = -1,
                                     !.called = FALSE]]
    /\ lastOp' = [op |-> "clearCache",
                  unexpired |-> {k \in Keys :
                                    getCachedResult(cache, k, now).present}]
    /\ UNCHANGED <<popup, toasts, now, pending, settings>>
    /\ UNCHANGED pageVars

NextClient ==
    \/ Tick
    \/ \E p \in CallPairs : Resolve(p[1], p[2])
    \/ \E p \in CallPairs, o \in Outcomes : Respond(p[1], p[2], o)
    \/ ClearCacheMessage

SpecClient == InitClient /\ [][NextClient]_vars

---------------------------------------------------------------------------
(* Properties of the client, checked under SpecClient.                     *)

\* the pair the operation executed last was about
LastKey == CacheKey(lastOp.uuid, lastOp.type)

\* the operation executed last is the start of a resolveUUID call
Started == lastOp.op = "resolveUUID"

\* the operation executed last is the completion of a resolveUUID call
Completed == lastOp.op = "respond"

\* C1: when a resolveUUID call for a pair has succeeded and the second call
\* for the same pair starts after the first completed, one request has been
\* sent in total if the second call starts before the expiry has elapsed,
\* and two if it starts after the expiry has elapsed.
C1_OneRequestWithinExpiry ==
    (Started /\ calls[LastKey].nCalls = 2 /\ lastOp.okAge >= 0) =>
        /\ lastOp.okAge < cacheExpiry => calls[LastKey].nSent = 1
        /\ lastOp.okAge > cacheExpiry => calls[LastKey].nSent = 2

\* a second call for a pair, started within the window: one request in total
C1_Witness ==
    /\ Started
    /\ calls[LastKey].nCalls = 2
    /\ lastOp.okAge > 0
    /\ lastOp.okAge < cacheExpiry
    /\ calls[LastKey].nSent = 1
    /\ ~lastOp.sent

\* C2: resolveUUID never throws to its caller; when the message rejects,
\* gets no response or gets success=false, the call returns a value with the
\* requested uuid and type, a set error field and a name that tells the
\* failure.
C2_NeverThrows ==
    Completed =>
        /\ ~lastOp.threw
        /\ lastOp.outcome # "success" =>
              /\ lastOp.value.uuid = lastOp.uuid
              /\ lastOp.value.type = lastOp.type
              /\ lastOp.value.error # Undefined
              /\ lastOp.value.name = <<"Resolution Failed: ", lastOp.value.error>>

\* a call completed although the authority gave no response at all
C2_Witness ==
    /\ Completed
    /\ lastOp.outcome = "noResponse"
    /\ lastOp.value.error # Undefined

C4_Original ==
    (Started /\ lastOp.firstAfterClear) => lastOp.sent

\* C4, amended: clearCache leaves the cache without any entry, whatever the
\* ages of the entries were; the next resolveUUID for a pair sends a
\* request unless the answer to a request sent before the clearCache has
\* been stored in between.
C4_ClearEmptiesCache ==
    /\ lastOp.op = "clearCache" => cache = EmptyCache
    /\ (Started /\ lastOp.firstAfterClear /\ lastOp.okAge = -1) => lastOp.sent

\* a clearCache has dropped an entry that had not expired
C4_Witness ==
    /\ lastOp.op = "clearCache"
    /\ lastOp.unexpired # {}
    /\ cache = EmptyCache

\* C5: a lookup never returns an entry older than the expiry; a call that
\* finds such an entry sends a request, and a call that is served from the
\* cache found an entry no older than the expiry.
C5_ExpiredIsAbsent ==
    Started =>
        /\ lastOp.entryAge > cacheExpiry => lastOp.sent
        /\ ~lastOp.sent => (lastOp.entryAge >= 0 /\ lastOp.entryAge <= cacheExpiry)

\* a call found an entry older than the expiry and went to the authority
C5_Witness ==
    /\ Started
    /\ lastOp.entryAge > cacheExpiry
    /\ lastOp.sent

\* C6 as stated: with cacheTimeout configured to T, a call that finds an
\* entry younger than T is served from the cache and a call that finds an
\* entry older than T is not.
C6_Original ==
    (Started /\ lastOp.entryAge >= 0) =>
        /\ lastOp.entryAge < settings.cacheTimeout => ~lastOp.sent
        /\ lastOp.entryAge > settings.cacheTimeout => lastOp.sent

---------------------------------------------------------------------------
(* The host page.                                                          *)

\* the locations of the page that hold a UUID, in document order
Locs == {"L1", "L2"}

LocOrder == <<"L1", "L2">>

\* What a location is:
\*   resource  an input with id *undefined-resource_uuid*, not in an Angular
\*             wrapper
\*   wrapped   an Angular input inside a .clr-input-wrapper
\*   input     a plain input in a valid action context
\*   element   an element whose text holds the UUID
Kinds == {"resource", "wrapped", "input", "element"}

\* the entity type the detector infers at a location
InferredType(kind) == IF kind = "resource" THEN "script" ELSE "tag"

\* the pages of the model: L1 is of any kind and holds u1; L2 is another
\* resource input that holds u1 too, or an element that holds u2
PageLayouts ==
    {d \in [Locs -> [kind : Kinds, uuid : UUIDs]] :
        /\ d["L1"].uuid = "u1"
        /\ d["L2"] \in {[kind |-> "resource", uuid |-> "u1"],
                        [kind |-> "element", uuid |-> "u2"]}}

\* the nodes the enhancer has inserted for a location:
\*   loading  .uuid-resolver-loading spans
\*   info     .uuid-resolver-info markers that contain their tooltip
\*   bare     .uuid-resolver-info markers whose tooltip was moved away
\*   overlay  .uuid-resolver-angular-overlay wrappers
\*   tooltip  .uuid-resolver-tooltip nodes appended to document.body
NoNodes == [loading |-> 0, info |-> 0, bare |-> 0, overlay |-> 0,
            tooltip |-> 0]

\* counters of the run:
\*   scans         scans of the page performed
\*   messages      control messages sent to the tab
\*   resolveCalls  the pairs resolveUUID has been called for
\*   injections    per location, the calls of injectResolvedName with the
\*                 data of a successful resolution since the last removal
\*   handed        the UUIDs of the occurrences enhanceUI has been called
\*                 with
NoStats == [scans |-> 0, messages |-> 0, resolveCalls |-> {},
            injections |-> [l \in Locs |-> 0],
            threw |-> FALSE, lost |-> {}, rejected |-> FALSE, dropped |-> {},
            handed |-> {}]

\* what the detector's monitors hold:
\*   checks   per input, the periodicCheck intervals of
\*            setupIntensiveMonitoring that have not been cleared
\*   changed  the inputs with a value poller (setupAngularValueMonitoring)
\*            whose lastKnownValue is not the value of the input
NoMonitors == [checks |-> [l \in Locs |-> 0], changed |-> {}]

\* the state the detector and the enhancer work on
CurrentState ==
    [detectedUUIDs |-> detectedUUIDs, processedElements |-> processedElements,
     tasks |-> tasks, nodes |-> nodes, stats |-> stats, cache |-> cache,
     monitors |-> monitors]

---------------------------------------------------------------------------
(* UUIDDetector.                                                           *)

\* where the element of a location is: in the "document"; in a "subtree"
\* that was removed from the document (the element still has its parent);
\* or "none", the element itself was removed and has no parent
Attached(l) ==
    IF "attached" \in DOMAIN dom[l] THEN dom[l].attached ELSE "document"

\* the value of an input the host application has not populated yet
EmptyValue == ""

\* uuidRegex.test(value): the value holds a UUID
uuidRegexTest(value) == value \in UUIDs

\* the locations a scan reported
Emitted(found) == {found[i].loc : i \in 1..Len(found)}

\* the UUIDs of the occurrences a scan reported
EmittedUUIDs(found) == {found[i].uuid : i \in 1..Len(found)}

\* scanUndefinedResourceUuidInputs: every resource input is reported, the
\* type is 'script'; detectedUUIDs is neither read nor written
RECURSIVE scanUndefinedResourceUuidInputs(_, _)
scanUndefinedResourceUuidInputs(i, found) ==
    IF i > Len(LocOrder) THEN found
    ELSE LET l == LocOrder[i]
         IN  scanUndefinedResourceUuidInputs(i + 1,
                IF /\ dom[l].kind = "resource"
                   /\ Attached(l) = "document"
                   /\ uuidRegexTest(dom[l].uuid)
                THEN Append(found, [loc |-> l,
                                    uuid |-> toLowerCase(dom[l].uuid),
                                    type |-> "script"])
                ELSE found)

\* findAssociatedLabel(element) throws for this kind of location: the id of
\* the input holds a double quote, and label[for="..."] made of it is not a
\* selector
SelectorThrows(kind) == kind = "quoted"

\* a scan that reports a UUID only if detectedUUIDs does not hold it yet
\* (scanAngularDynamicInputs, aggressiveScanActionComponents,
\* scanInputElements, scanActionContexts): r = [found, detected, threw].
\* The UUID is added to detectedUUIDs before the type is inferred; nothing
\* catches what the inference throws, so the scan ends there.
RECURSIVE scanWithDedup(_, _, _)
scanWithDedup(kinds, i, r) ==
    IF i > Len(LocOrder) \/ r.threw THEN r
    ELSE LET l == LocOrder[i]
         IN  scanWithDedup(kinds, i + 1,
                IF /\ dom[l].kind \in kinds
                   /\ Attached(l) = "document"
                   /\ uuidRegexTest(dom[l].uuid)
                   /\ dom[l].uuid \notin r.detected
                THEN IF SelectorThrows(dom[l].kind)
                     THEN [found |-> r.found,
                           detected |-> r.detected \cup {dom[l].uuid},
                           threw |-> TRUE]
                     ELSE [found |-> Append(r.found,
                               [loc |-> l, uuid |-> dom[l].uuid,
                                type |-> InferredType(dom[l].kind)]),
                           detected |-> r.detected \cup {dom[l].uuid},
                           threw |-> FALSE]
                ELSE r)

\* scanAngularDynamicInputs(foundUUIDs)
scanAngularDynamicInputs(r) == scanWithDedup({"resource", "wrapped"}, 1, r)

\* scanReadonlyInputs(foundUUIDs): readonly inputs, reported once per UUID
\* (called by scanForUUIDs and by the frequent scan; modelled from its
\* specification, as the scan of readonly Angular inputs)
scanReadonlyInputs(r) == scanWithDedup({"wrapped"}, 1, r)

\* the selectors of scanUndefinedResourceUuidInputs that match an input
\* whose id starts with undefined-resource_uuid: id^= and id*=
MatchingSelectors == 2

\* setupIntensiveMonitoring(input, foundUUIDs), as scanForUUIDs calls it
\* through scanUndefinedResourceUuidInputs: for every selector and every
\* input it matches, with or without a value, one more periodicCheck
setupIntensiveMonitoring(m) ==
    [m EXCEPT !.checks = [l \in Locs |->
        IF dom[l].kind = "resource" /\ Attached(l) = "document"
        THEN @[l] + MatchingSelectors
        ELSE @[l]]]

\* scanForUUIDs(): the scans in the order of the code (the undefined
\* resource inputs, the Angular inputs, the action components, the inputs,
\* the text nodes of the action contexts, the readonly inputs); a scan
\* that throws ends scanForUUIDs, which then returns nothing
scanForUUIDs(detected) ==
    LET r0 == [found |-> scanUndefinedResourceUuidInputs(1, <<>>),
               detected |-> detected, threw |-> FALSE]
        r1 == scanAngularDynamicInputs(r0)
        r2 == scanWithDedup({"element"}, 1, r1)
        r3 == scanWithDedup({"input", "quoted"}, 1, r2)
        r4 == scanWithDedup({"text"}, 1, r3)
    IN  scanReadonlyInputs(r4)

\* clearDetectedUUIDs()
clearDetectedUUIDs(s) == [s EXCEPT !.detectedUUIDs = {}]

---------------------------------------------------------------------------
(* UIEnhancer.                                                             *)

\* applyContainerAwareness: the marker gets the class in-input-field when
\* the element is (in) an input
inInputField(kind) == kind # "element"

\* insertAfterTextNode(element, elementToInsert), on the nodes of the
\* location; what is "loading" or "info"
insertAfterTextNode(n, kind, what) ==
    IF what = "info" /\ inInputField(kind)
    THEN IF kind = "wrapped"
         THEN [n EXCEPT !.overlay = @ + 1, !.bare = @ + 1, !.tooltip = @ + 1]
         ELSE [n EXCEPT !.bare = @ + 1, !.tooltip = @ + 1]
    ELSE IF what = "info"
         THEN [n EXCEPT !.info = @ + 1]
         ELSE [n EXCEPT !.loading = @ + 1]

\* showLoadingIndicator(uuidData)
showLoadingIndicator(n, kind) == insertAfterTextNode(n, kind, "loading")

\* removeLoadingIndicators(element)
removeLoadingIndicators(n) == [n EXCEPT !.loading = 0]

\* findExistingResolution(element, uuid): a marker in the container whose
\* .tooltip-uuid names the uuid
findExistingResolution(n) == n.info > 0

\* injectResolvedName(uuidData, resolvedData)
injectResolvedName(n, kind) ==
    LET n1 == removeLoadingIndicators(n)
    IN  IF findExistingResolution(n1) THEN n1
        ELSE insertAfterTextNode(n1, kind, "info")

\* removeAllEnhancements(): the nodes document.querySelectorAll finds (those
\* of an element that was removed by itself are still in the document, in
\* what was its parent)
removeAllEnhancements(s) ==
    [s EXCEPT !.nodes = [l \in Locs |->
                 IF Attached(l) # "subtree"
                 THEN [@[l] EXCEPT !.loading = 0, !.info = 0, !.bare = 0]
                 ELSE @[l]],
              !.processedElements = {},
              !.stats.injections = [l \in Locs |-> 0]]

\* insertAfterTextNode(textNode, elementToInsert) throws for this kind of
\* location: the occurrence of scanActionContexts holds a Text node, which
\* has no method closest
InsertThrows(kind) == kind = "text"

\* enhanceUI(detectedUUIDs), from the head of the list to the first await:
\* processed elements are skipped; for the first other one the loading
\* indicator is shown and resolveUUID is called, which either finds the
\* result in the cache or sends the request. When showLoadingIndicator
\* throws, the catch calls showErrorIndicator, which throws the same way:
\* the promise of enhanceUI is rejected and the rest of the list is left.
RECURSIVE enhanceUI(_, _)
enhanceUI(s, occs) ==
    IF occs = <<>> THEN s
    ELSE LET o == Head(occs)
         IN  IF o.loc \in s.processedElements
             THEN enhanceUI(s, Tail(occs))
             ELSE IF InsertThrows(dom[o.loc].kind)
             THEN [s EXCEPT
                     !.stats.rejected = TRUE,
                     !.stats.dropped =
                         @ \cup (Emitted(Tail(occs)) \ s.processedElements)]
             ELSE LET hit == getCachedResult(s.cache,
                                 CacheKey(o.uuid, o.type), now)
                  IN  [s EXCEPT
                        !.nodes[o.loc] =
                            IF Attached(o.loc) = "none" THEN @
                            ELSE showLoadingIndicator(@, dom[o.loc].kind),
                        !.stats.resolveCalls =
                            @ \cup {CacheKey(o.uuid, o.type)},
                        !.tasks = Append(@,
                            [cur |-> o, rest |-> Tail(occs),
                             wait |-> IF hit.present THEN "micro"
                                      ELSE "net"])]

\* enhanceUI after the await of task i, with what resolveUUID returned.
\* An element without a parent gets nothing (if (!parent) return); nothing
\* else is tested, so an element of a removed subtree is annotated there
enhanceUIResume(s, i, succeeded) ==
    LET t  == s.tasks[i]
        l  == t.cur.loc
        s1 == [s EXCEPT
                 !.tasks = SubSeq(@, 1, i - 1) \o SubSeq(@, i + 1, Len(@)),
                 !.nodes[l] = IF Attached(l) = "none" THEN @
                              ELSE injectResolvedName(@, dom[l].kind),
                 !.processedElements = @ \cup {l},
                 !.stats.injections[l] =
                     IF succeeded THEN @ + 1 ELSE @]
    IN  enhanceUI(s1, t.rest)

---------------------------------------------------------------------------
(* content-script.js.                                                      *)

\* if (!settings.enabled) return;  taken the other way round
IsEnabledIgnored(s) == TRUE

\* the test of the settings at initialisation
IsEnabled(s) == s.enabled

\* what initialisation registers: the two delayed scans, the monitoring of
\* setupContinuousMonitoring, the detector's monitors and the message
\* listener
Registrations ==
    {"t3", "t5", "observer", "angularPolling", "uuidsDetected",
     "frequentScan", "visibilitychange", "focus", "beforeunload",
     "advancedAngularMonitoring", "uuid0Monitoring",
     "readonlyAngularInputDetection", "angularJavaScriptValueDetection",
     "onMessage"}

\* what the caller of scanForUUIDs gets
returned(r) == IF r.threw THEN <<>> ELSE r.found

\* uiEnhancer.enhanceUI(found), called by the content script
handOver(s, found) ==
    enhanceUI([s EXCEPT !.stats.handed = @ \cup EmittedUUIDs(found)], found)

\* performInitialScan(), up to its await; its catch logs what scanForUUIDs
\* or enhanceUI throws
performInitialScan(s) ==
    LET r  == scanForUUIDs(s.detectedUUIDs)
        s1 == [s EXCEPT !.detectedUUIDs = r.detected,
                        !.monitors = setupIntensiveMonitoring(@),
                        !.stats.scans = @ + 1,
                        !.stats.threw = @ \/ r.threw,
                        !.stats.lost =
                            IF r.threw THEN @ \cup Emitted(r.found) ELSE @]
    IN  IF r.threw THEN s1 ELSE handOver(s1, r.found)

\* no continuation of a resolved promise is waiting: a timer, an event or a
\* message is handled only then
NoMicrotask == \A i \in 1..Len(tasks) : tasks[i].wait # "micro"

Apply(s) ==
    /\ detectedUUIDs' = s.detectedUUIDs
    /\ processedElements' = s.processedElements
    /\ tasks' = s.tasks
    /\ nodes' = s.nodes
    /\ stats' = s.stats
    /\ cache' = s.cache
    /\ monitors' = s.monitors

\* the content script loaded into a page of D, with settings of S in the
\* store
InitPageWith(S, D) ==
    /\ now = 0
    /\ cache = EmptyCache
    /\ pending = [k \in Keys |-> 0]
    /\ calls = [k \in CallPairs |-> NoHistory]
    /\ cleared = FALSE
    /\ settings \in S
    /\ lastOp = [op |-> "load"]
    /\ phase = "loading"
    /\ dom \in D
    /\ registered = {}
    /\ detectedUUIDs = {}
    /\ processedElements = {}
    /\ tasks = <<>>
    /\ nodes = [l \in Locs |-> NoNodes]
    /\ stats = NoStats
    /\ monitors = NoMonitors
    /\ popup = <<>>
    /\ toasts = <<>>

InitSpecPage ==
    InitPageWith([enabled : BOOLEAN, cacheTimeout : {5 * Minute}], PageLayouts)

\* the main function, after the settings have been read: return if the
\* extension is disabled; otherwise scan, and register the delayed scans,
\* the monitoring and the message listener
Initialise ==
    /\ phase = "loading"
    /\ phase' = IF settings.enabled THEN "readEnabled" ELSE "readDisabled"
    /\ lastOp' = [op |-> "initialise",
                  emitted |-> IF IsEnabled(settings)
                              THEN Emitted(returned(scanForUUIDs(detectedUUIDs)))
                              ELSE {}]
    /\ IF IsEnabled(settings)
       THEN /\ Apply(performInitialScan(CurrentState))
            /\ registered' = Registrations
       ELSE /\ UNCHANGED <<detectedUUIDs, processedElements, tasks, nodes,
                           stats, cache, registered, monitors>>
    /\ UNCHANGED <<popup, toasts, now, pending, calls, cleared, settings, dom>>

\* a delayed scan (3 s or 5 s after initialisation)
DelayedScan(t) ==
    /\ t \in registered
    /\ NoMicrotask
    /\ stats.scans < MaxScans
    /\ registered' = registered \ {t}
    /\ Apply(performInitialScan(CurrentState))
    /\ lastOp' = [op |-> "delayedScan"]
    /\ UNCHANGED <<popup, toasts, now, pending, calls, cleared, settings, dom, phase>>

\* the scan every 5 s: scanAngularDynamicInputs and scanReadonlyInputs, and
\* enhanceUI (not awaited) if they found something
FrequentScan ==
    /\ "frequentScan" \in registered
    /\ NoMicrotask
    /\ stats.scans < MaxScans
    /\ LET r  == scanReadonlyInputs(scanAngularDynamicInputs(
                     [found |-> <<>>, detected |-> detectedUUIDs,
                      threw |-> FALSE]))
           s1 == [CurrentState EXCEPT !.detectedUUIDs = r.detected,
                                      !.stats.scans = @ + 1]
       IN  Apply(handOver(s1, r.found))
    /\ lastOp' = [op |-> "frequentScan"]
    /\ UNCHANGED <<popup, toasts, now, pending, calls, cleared, settings, dom, phase,
                   registered>>

\* the timeout a focus or visibility listener sets
TimeoutOf(e) == IF e = "focus" THEN "focusTimeout" ELSE "visibilityTimeout"

\* the window gets the focus, or the page becomes visible: if the listener
\* is registered, it sets a timeout (500 ms, 1 s)
RescanEvent(e) ==
    /\ NoMicrotask
    /\ TimeoutOf(e) \notin registered
    /\ registered' = IF e \in registered
                     THEN registered \cup {TimeoutOf(e)}
                     ELSE registered
    /\ lastOp' = [op |-> e, heard |-> e \in registered]
    /\ UNCHANGED <<popup, toasts, now, cache, pending, calls, cleared, settings, dom, phase,
                   detectedUUIDs, processedElements, tasks, nodes, stats,
                   monitors>>

\* the timeout of a focus or visibility event: clearDetectedUUIDs() and
\* performInitialScan()
RescanTimeout(e) ==
    /\ TimeoutOf(e) \in registered
    /\ NoMicrotask
    /\ stats.scans < MaxScans
    /\ registered' = registered \ {TimeoutOf(e)}
    /\ Apply(performInitialScan(clearDetectedUUIDs(CurrentState)))
    /\ lastOp' = [op |-> "rescan", event |-> e]
    /\ UNCHANGED <<popup, toasts, now, pending, calls, cleared, settings, dom, phase>>

\* a control message is sent to the tab; heard if the listener is registered
Heard == "onMessage" \in registered

MessageGuard ==
    /\ NoMicrotask
    /\ phase # "loading"
    /\ stats.messages < MaxMessages
    /\ Heard => stats.scans < MaxScans

Counted(s) == [s EXCEPT !.stats.messages = @ + 1]

\* 'clearCache': apiClient.clearCache()
ClearCache ==
    /\ MessageGuard
    /\ Apply(IF Heard
             THEN [Counted(CurrentState) EXCEPT
                      !.cache = clearCache(@, now)]
             ELSE Counted(CurrentState))
    /\ lastOp' = [op |-> "clearCache", heard |-> Heard]
    /\ UNCHANGED <<popup, toasts, now, pending, calls, cleared, settings, dom, phase,
                   registered>>

\* 'refreshResolution': performRefresh(), up to its await
performRefresh(s) ==
    performInitialScan(
        [removeAllEnhancements(s) EXCEPT !.cache = clearCache(@, now)])

RefreshResolution ==
    /\ MessageGuard
    /\ Apply(IF Heard THEN performRefresh(Counted(CurrentState))
             ELSE Counted(CurrentState))
    /\ lastOp' = [op |-> "refreshResolution", heard |-> Heard]
    /\ UNCHANGED <<popup, toasts, now, pending, calls, cleared, settings, dom, phase,
                   registered>>

\* toggleExtension(enabled)
toggleExtension(s, enabled) ==
    IF enabled THEN performInitialScan(s) ELSE removeAllEnhancements(s)

ToggleExtension(enabled) ==
    /\ MessageGuard
    /\ Apply(IF Heard THEN toggleExtension(Counted(CurrentState), enabled)
             ELSE Counted(CurrentState))
    /\ lastOp' = [op |-> "toggleExtension", enabled |-> enabled,
                  heard |-> Heard]
    /\ UNCHANGED <<popup, toasts, now, pending, calls, cleared, settings, dom, phase,
                   registered>>

\* the authority answers the request of task i: resolveUUID stores and
\* returns, enhanceUI injects and goes on to its next await
ResolveSettled(i, outcome) ==
    /\ i \in 1..Len(tasks)
    /\ tasks[i].wait = "net"
    /\ NoMicrotask
    /\ LET o == tasks[i].cur
           s == [CurrentState EXCEPT
                    !.cache = ResolveStore(@, o.uuid, o.type, outcome, now)]
           r == ResolveReturn(o.uuid, o.type, outcome)
       IN  Apply(enhanceUIResume(s, i, r.value.error = Undefined))
    /\ lastOp' = [op |-> "resolved", loc |-> tasks[i].cur.loc,
                  failed |-> ResolveReturn(tasks[i].cur.uuid,
                      tasks[i].cur.type, outcome).value.error # Undefined]
    /\ UNCHANGED <<popup, toasts, now, pending, calls, cleared, settings, dom, phase,
                   registered>>

\* resolveUUID of task i returned the cached result: enhanceUI goes on
ResolveFromCache(i) ==
    /\ i \in 1..Len(tasks)
    /\ tasks[i].wait = "micro"
    /\ Apply(enhanceUIResume(CurrentState, i, TRUE))
    /\ lastOp' = [op |-> "resolved", loc |-> tasks[i].cur.loc,
                  failed |-> FALSE]
    /\ UNCHANGED <<popup, toasts, now, pending, calls, cleared, settings, dom, phase,
                   registered>>

\* the number of enhanceUI runs that can be suspended at once
MaxTasks == MaxScans + MaxMessages + 1

NextPage ==
    \/ Initialise
    \/ \E t \in {"t3", "t5"} : DelayedScan(t)
    \/ FrequentScan
    \/ \E e \in {"focus", "visibilitychange"} : RescanEvent(e)
    \/ \E e \in {"focus", "visibilitychange"} : RescanTimeout(e)
    \/ ClearCache
    \/ RefreshResolution
    \/ \E b \in BOOLEAN : ToggleExtension(b)
    \/ \E i \in 1..MaxTasks, o \in Outcomes : ResolveSettled(i, o)
    \/ \E i \in 1..MaxTasks : ResolveFromCache(i)

SpecPage == InitSpecPage /\ [][NextPage]_vars

---------------------------------------------------------------------------
(* Properties of the content script, checked under SpecPage.               *)

\* the markers a location carries
Markers(l) == nodes[l].info + nodes[l].bare

\* the nodes of the enhancer a location has left in the document
Inserted(l) ==
    nodes[l].loading + nodes[l].info + nodes[l].bare + nodes[l].overlay
        + nodes[l].tooltip

\* C7 as stated: after any sequence of scans of the unchanged page (initial,
\* delayed, periodic, focus and visibility rescans), resolutions in flight
\* or not, no location carries more than one annotation.
C7_Original ==
    stats.messages = 0 => \A l \in Locs : Markers(l) <= 1

\* C8 as stated: injectResolvedName called twice or more with the same
\* element, uuid and resolved data leaves exactly one marker at the
\* location, whether the marker is placed inline or in an overlay.
C8_Original ==
    \A l \in Locs : stats.injections[l] >= 2 => Markers(l) = 1

\* C9 as stated: after removeAllEnhancements no node the enhancer inserted
\* remains in the document.
C9_Original ==
    (lastOp.op = "toggleExtension" /\ lastOp.heard /\ ~lastOp.enabled) =>
        \A l \in Locs : Inserted(l) = 0

\* C10: if the settings say enabled=false when the content script
\* initialises, no scan is ever performed, nothing is registered (timer,
\* observer, listener, monitoring), no resolveUUID call is made and nothing
\* is inserted, whatever events and messages arrive afterwards.
C10_DisabledDoesNothing ==
    (phase = "readDisabled") =>
        /\ stats.scans = 0
        /\ registered = {}
        /\ stats.resolveCalls = {}
        /\ tasks = <<>>
        /\ detectedUUIDs = {}
        /\ \A l \in Locs : Inserted(l) = 0

\* a disabled content script has been sent a toggleExtension(true) message
C10_Witness ==
    /\ phase = "readDisabled"
    /\ lastOp.op = "toggleExtension"
    /\ lastOp.enabled
    /\ ~lastOp.heard

\* C11 as stated: after a toggleExtension(false) message, until a
\* toggleExtension(true) message is received, no scan runs and no annotation
\* is inserted: the step that follows the message performs no scan and adds
\* no marker.
C11_Original ==
    [][(/\ lastOp.op = "toggleExtension"
        /\ lastOp.heard
        /\ ~lastOp.enabled
        /\ ~(lastOp'.op = "toggleExtension" /\ lastOp'.enabled))
       => /\ stats'.scans = stats.scans
          /\ \A l \in Locs : nodes'[l].info + nodes'[l].bare <= Markers(l)]_vars

---------------------------------------------------------------------------
(* SpecTypes: the content script with the entity types of the settings.    *)

\* entityTypes as collectSettings stores it: every type enabled, or every
\* type but script
EntityTypeSettings ==
    {[t \in EntityTypes |-> TRUE], [t \in EntityTypes |-> t # "script"]}

InitSpecTypes ==
    InitPageWith([enabled : {TRUE}, cacheTimeout : {5 * Minute},
                  entityTypes : EntityTypeSettings],
                 {d \in PageLayouts : d["L1"].kind = "resource"})

SpecTypes == InitSpecTypes /\ [][NextPage]_vars

\* C12 as stated: resolveUUID is never invoked for an occurrence whose
\* entity type is disabled in the settings.
C12_Original ==
    \A k \in stats.resolveCalls : settings.entityTypes[k[2]]

---------------------------------------------------------------------------
(* SpecDetect: the content script on pages that hold one UUID at two       *)
(* locations, in lowercase or in uppercase.                                *)

\* L1 is an input that holds u1, in lowercase or in uppercase; L2 is an
\* element (a read-only preview) or a resource input that holds u1
DetectLayouts ==
    {d \in [Locs -> [kind : Kinds, uuid : UUIDs]] :
        /\ d["L1"].kind = "input"
        /\ d["L1"].uuid \in {"u1", "U1"}
        /\ d["L2"].kind \in {"element", "resource"}
        /\ d["L2"].uuid = "u1"}

InitSpecDetect ==
    InitPageWith([enabled : {TRUE}, cacheTimeout : {5 * Minute}],
                 DetectLayouts)

SpecDetect == InitSpecDetect /\ [][NextPage]_vars

\* C13 as stated: when one UUID is present at two locations, one scan of the
\* page reports an occurrence for each of the locations.
C13_Original ==
    (lastOp.op = "initialise" /\ phase = "readEnabled") =>
        lastOp.emitted = Locs

\* C14 as stated: every entry of the detected set and every occurrence
\* handed to the enhancer carries its UUID in lowercase.
C14_Original ==
    /\ \A u \in detectedUUIDs : u = toLowerCase(u)
    /\ \A i \in 1..Len(tasks) :
          /\ tasks[i].cur.uuid = toLowerCase(tasks[i].cur.uuid)
          /\ \A j \in 1..Len(tasks[i].rest) :
                tasks[i].rest[j].uuid = toLowerCase(tasks[i].rest[j].uuid)

---------------------------------------------------------------------------
(* The inference of the entity type (UUIDDetector.inferEntityTypeFrom...). *)
(* A text is the set of the words it is made of; the page of SpecClassify  *)
(* is one form control with its label, its attributes, the text of its     *)
(* container and the rest of the page.                                     *)

\* the most words a text of the model is made of
MaxWords == 2

\* <<w, p>>: p is a substring of the word w, and is not w
Substrings ==
    {<<"organization group uuid", "organization">>,
     <<"product uuid", "product">>, <<"script uuid", "script">>,
     <<"profile uuid", "profile">>, <<"tag uuid", "tag">>,
     <<"app uuid", "app">>, <<"application uuid", "application">>,
     <<"application uuid", "app">>, <<"application", "app">>,
     <<"organization", "org">>,
     <<"undefined-resource_uuid", "resource_uuid">>}

\* String.prototype.includes, on a text
includes(text, pattern) ==
    \E w \in text : w = pattern \/ <<w, pattern>> \in Substrings

\* a chain of  if (text.includes(pattern)) return type;  with the value
\* when none of them returns
RECURSIVE FirstMatch(_, _, _, _)
FirstMatch(text, table, i, otherwise) ==
    IF i > Len(table) THEN otherwise
    ELSE IF includes(text, table[i][1]) THEN table[i][2]
         ELSE FirstMatch(text, table, i + 1, otherwise)

\* no chain has returned yet
NoMatch == "no match"

\* inferEntityTypeFromLabel: the table of direct matches
directMatches ==
    << <<"organization group uuid", "organization-group">>,
       <<"product uuid", "product">>,
       <<"script uuid", "script">>,
       <<"profile uuid", "profile">>,
       <<"tag uuid", "tag">>,
       <<"app uuid", "application">>,
       <<"application uuid", "application">> >>

\* inferEntityTypeFromLabel(labelText)
inferEntityTypeFromLabel(labelText) ==
    FirstMatch(labelText,
               directMatches \o
               << <<"organization", "organization-group">>,
                  <<"org group", "organization-group">>,
                  <<"product", "product">>,
                  <<"script", "script">>,
                  <<"profile", "profile">>,
                  <<"tag", "tag">> >>,
               1, "application")

\* findAssociatedLabel(element): the label of the control, or none
findAssociatedLabel(o) == o.hasLabel

\* inferEntityTypeFromElement(element)
inferEntityTypeFromElement(o) ==
    IF findAssociatedLabel(o)
       /\ inferEntityTypeFromLabel(o.label) # "application"
    THEN inferEntityTypeFromLabel(o.label)
    ELSE "application"

\* document.body.textContent, document.title and the URL: the words of the
\* control's label and of its container are part of the body
pageText(o) == o.page \cup o.label \cup o.ancestor

\* inferEntityTypeFromPageContext(uuid), of the detector and of the content
\* script (the two functions are the same)
inferEntityTypeFromPageContext(o) ==
    FirstMatch(pageText(o),
               << <<"tag", "tag">>, <<"profile", "profile">>,
                  <<"script", "script">>, <<"workflow", "script">>,
                  <<"product", "product">>,
                  <<"organization", "organization-group">> >>,
               1, "application")

\* inferEntityTypeFromSurroundingElements(element, uuid): the labels of the
\* container, then its text, then the page
inferEntityTypeFromSurroundingElements(o) ==
    LET byLabel ==
            IF o.hasLabel
            THEN FirstMatch(o.label,
                     << <<"tag", "tag">>, <<"profile", "profile">>,
                        <<"script", "script">>, <<"product", "product">>,
                        <<"organization", "organization-group">>,
                        <<"org group", "organization-group">>,
                        <<"application", "application">>,
                        <<"app", "application">> >>, 1, NoMatch)
            ELSE NoMatch
        byText ==
            FirstMatch(o.ancestor,
                << <<"tag", "tag">>, <<"profile", "profile">>,
                   <<"script", "script">>, <<"product", "product">>,
                   <<"organization", "organization-group">>,
                   <<"org group", "organization-group">> >>, 1, NoMatch)
    IN  IF byLabel # NoMatch THEN byLabel
        ELSE IF byText # NoMatch THEN byText
        ELSE inferEntityTypeFromPageContext(o)

\* inferEntityTypeFromAngularInput(input, uuid): the id, the placeholder,
\* the context of a lookup-variable-input, the name, the label of a
\* clrinput, then the surrounding elements
inferEntityTypeFromAngularInput(o) ==
    LET byId ==
            FirstMatch(o.id,
                << <<"product_uuid", "product">>, <<"product-uuid", "product">>,
                   <<"script_uuid", "script">>, <<"script-uuid", "script">>,
                   <<"resource_uuid", "script">>, <<"resource-uuid", "script">>,
                   <<"tag_uuid", "tag">>, <<"tag-uuid", "tag">>,
                   <<"app_uuid", "application">>, <<"app-uuid", "application">>,
                   <<"application_uuid", "application">>,
                   <<"application-uuid", "application">>,
                   <<"undefined-application_uuid", "application">>,
                   <<"profile_uuid", "profile">>, <<"profile-uuid", "profile">>,
                   <<"org_uuid", "organization-group">>,
                   <<"organization_uuid", "organization-group">> >>,
                1, NoMatch)
        byPlaceholder ==
            FirstMatch(o.placeholder,
                << <<"workflow", "script">>, <<"script", "script">>,
                   <<"product", "product">>, <<"tag", "tag">>,
                   <<"app", "application">>,
                   <<"application", "application">>,
                   <<"profile", "profile">> >>, 1, NoMatch)
        byContext ==
            IF o.lookup
            THEN FirstMatch(o.ancestor \cup o.label,
                     << <<"workflow", "script">>, <<"script", "script">>,
                        <<"product", "product">>, <<"tag", "tag">>,
                        <<"application", "application">>,
                        <<"app", "application">>,
                        <<"profile", "profile">>,
                        <<"organization", "organization-group">>,
                        <<"org group", "organization-group">> >>, 1, NoMatch)
            ELSE NoMatch
        byName ==
            FirstMatch(o.name,
                << <<"workflow", "script">>, <<"script", "script">>,
                   <<"product", "product">>, <<"tag", "tag">>,
                   <<"app", "application">>,
                   <<"application", "application">>,
                   <<"profile", "profile">>,
                   <<"org", "organization-group">>,
                   <<"organization", "organization-group">> >>, 1, NoMatch)
        byLabelFor ==
            IF o.clrinput /\ o.hasLabel
            THEN FirstMatch(o.label,
                     << <<"workflow", "script">>, <<"script", "script">>,
                        <<"product", "product">>, <<"tag", "tag">>,
                        <<"app", "application">>,
                        <<"application", "application">>,
                        <<"profile", "profile">> >>, 1, NoMatch)
            ELSE NoMatch
    IN  IF byId # NoMatch THEN byId
        ELSE IF byPlaceholder # NoMatch THEN byPlaceholder
        ELSE IF byContext # NoMatch THEN byContext
        ELSE IF byName # NoMatch THEN byName
        ELSE IF byLabelFor # NoMatch THEN byLabelFor
        ELSE inferEntityTypeFromSurroundingElements(o)

\* window.uiEnhancer, had the content script set it
windowUiEnhancerSet == TRUE

\* window.uiEnhancer: the content script keeps its enhancer in a const of
\* its function and never assigns the property
windowUiEnhancer == FALSE

\* processHiddenUUID(uuid, element, source): the type of the occurrence
processHiddenUUID(o, hasElement, source) ==
    LET inferred == IF hasElement THEN inferEntityTypeFromAngularInput(o)
                    ELSE "unknown"
    IN  IF hasElement /\ inferred = "unknown"
        THEN FirstMatch(source,
                 << <<"application", "application">>,
                    <<"app", "application">>, <<"script", "script">>,
                    <<"resource", "script">>, <<"tag", "tag">>,
                    <<"product", "product">>, <<"profile", "profile">> >>,
                 1, "unknown")
        ELSE inferred

---------------------------------------------------------------------------
(* SpecClassify: one control, classified along each path of the code.      *)

\* the texts of at most MaxWords words of W
Texts(W) == {t \in SUBSET W : Cardinality(t) <= MaxWords}

LabelWords ==
    {"script uuid", "tag uuid", "product", "profile", "tag", "application"}

\* the controls of the model: an input whose value is a UUID; clrinput says
\* that it is an input[clrinput] of a clr-input-container, lookup that it
\* has the class lookup-variable-input
Controls ==
    {o \in [hasLabel : BOOLEAN, label : Texts(LabelWords),
            id : {{}, {"product_uuid"}, {"undefined-resource_uuid"}},
            placeholder : {{}, {"tag"}},
            name : {{}, {"profile"}},
            lookup : BOOLEAN, clrinput : BOOLEAN,
            ancestor : {{}, {"script"}},
            page : Texts({"tag", "organization"})] :
        ~o.hasLabel => o.label = {}}

InitSpecClassify ==
    /\ now = 0
    /\ cache = EmptyCache
    /\ pending = [k \in Keys |-> 0]
    /\ calls = [k \in CallPairs |-> NoHistory]
    /\ cleared = FALSE
    /\ settings = [enabled |-> TRUE, cacheTimeout |-> 5 * Minute]
    /\ lastOp = [op |-> "load"]
    /\ phase = "loading"
    /\ dom \in Controls
    /\ registered = {}
    /\ detectedUUIDs = {}
    /\ processedElements = {}
    /\ tasks = <<>>
    /\ nodes = [l \in Locs |-> NoNodes]
    /\ stats = NoStats
    /\ monitors = NoMonitors
    /\ popup = <<>>
    /\ toasts = <<>>

\* an occurrence got its type on a path of the code; passed says whether
\* the occurrence is handed to enhanceUI, which calls
\* resolveUUID(uuid, entityType)
Classified(path, entityType, passed) ==
    [op |-> "classify", path |-> path, entityType |-> entityType,
     passed |-> passed]

\* scanInputElements
ClassifyInput ==
    /\ lastOp' = Classified("scanInputElements",
                            inferEntityTypeFromElement(dom), TRUE)
    /\ UNCHANGED <<popup, toasts, now, cache, pending, calls, cleared, settings>>
    /\ UNCHANGED pageVars

\* scanAngularDynamicInputs
ClassifyAngular ==
    /\ lastOp' = Classified("scanAngularDynamicInputs",
                            inferEntityTypeFromAngularInput(dom), TRUE)
    /\ UNCHANGED <<popup, toasts, now, cache, pending, calls, cleared, settings>>
    /\ UNCHANGED pageVars

\* scanUndefinedResourceUuidInputs: the inputs its selectors match
ClassifyResource ==
    /\ \/ includes(dom.id, "resource_uuid")
       \/ includes(dom.placeholder, "The workflow UUID")
       \/ dom.clrinput
    /\ lastOp' = Classified("scanUndefinedResourceUuidInputs", "script", TRUE)
    /\ UNCHANGED <<popup, toasts, now, cache, pending, calls, cleared, settings>>
    /\ UNCHANGED pageVars

\* forceScanAllElements, for a UUID of the page text
ClassifyForceScan ==
    /\ lastOp' = Classified("forceScanAllElements",
                            inferEntityTypeFromPageContext(dom), TRUE)
    /\ UNCHANGED <<popup, toasts, now, cache, pending, calls, cleared, settings>>
    /\ UNCHANGED pageVars

\* handleAngularValueChange: the value of the input is set by a program
ClassifyValueChange ==
    /\ lastOp' = Classified("handleAngularValueChange",
                            inferEntityTypeFromAngularInput(dom),
                            windowUiEnhancer)
    /\ UNCHANGED <<popup, toasts, now, cache, pending, calls, cleared, settings>>
    /\ UNCHANGED pageVars

\* processHiddenUUID: a UUID found in a property of the element, or in
\* parsed JSON (no element)
ClassifyHidden(hasElement) ==
    /\ lastOp' = Classified("processHiddenUUID",
                     processHiddenUUID(dom, hasElement,
                         IF hasElement THEN {"angular-component"}
                         ELSE {"json-parse"}),
                     windowUiEnhancer)
    /\ UNCHANGED <<popup, toasts, now, cache, pending, calls, cleared, settings>>
    /\ UNCHANGED pageVars

\* resolveSpecificUUID(uuid) of the content script: the UUID is found in an
\* element of the page or it is not
ClassifySpecific(found) ==
    /\ lastOp' = Classified("resolveSpecificUUID",
                     IF found THEN inferEntityTypeFromElement(dom)
                     ELSE inferEntityTypeFromPageContext(dom),
                     TRUE)
    /\ UNCHANGED <<popup, toasts, now, cache, pending, calls, cleared, settings>>
    /\ UNCHANGED pageVars

NextClassify ==
    \/ ClassifyInput
    \/ ClassifyAngular
    \/ ClassifyResource
    \/ ClassifyForceScan
    \/ ClassifyValueChange
    \/ \E e \in BOOLEAN : ClassifyHidden(e)
    \/ \E f \in BOOLEAN : ClassifySpecific(f)

SpecClassify == InitSpecClassify /\ [][NextClassify]_vars

\* the types that have a canonical phrase in the text
CanonicalTypes(text) ==
    {directMatches[i][2] : i \in {j \in 1..Len(directMatches) :
                                     includes(text, directMatches[j][1])}}

\* the paths that classify an occurrence found by a scan of the page
ScanPaths ==
    {"scanInputElements", "scanAngularDynamicInputs",
     "scanUndefinedResourceUuidInputs"}

\* C15 as stated: when the label of the control holds a canonical phrase of
\* a type, every scan path classifies the occurrence as that type, whatever
\* the id, the placeholder, the container text and the page hold.
C15_Original ==
    (/\ lastOp.op = "classify"
     /\ lastOp.path \in ScanPaths
     /\ dom.hasLabel
     /\ Cardinality(CanonicalTypes(dom.label)) = 1)
    => lastOp.entityType \in CanonicalTypes(dom.label)

\* the keywords of each type
Keywords(type) ==
    CASE type = "organization-group" -> {"organization", "org group"}
      [] type = "product" -> {"product"}
      [] type = "script" -> {"script", "workflow"}
      [] type = "tag" -> {"tag"}
      [] type = "application" -> {"application", "app"}
      [] type = "profile" -> {"profile"}

\* the types that have a keyword in the text
KeywordTypes(text) ==
    {t \in EntityTypes : \E k \in Keywords(t) : includes(text, k)}

\* the one order of the types
TypePriority ==
    <<"organization-group", "product", "script", "tag", "application",
      "profile">>

\* the first type of the order that is in the set
FirstOf(types) ==
    TypePriority[CHOOSE i \in 1..Len(TypePriority) :
                    /\ TypePriority[i] \in types
                    /\ \A j \in 1..(i - 1) : TypePriority[j] \notin types]

\* C16 as stated: a label with keywords of several types, and no canonical
\* phrase, gets the first matching type of the order organization-group,
\* product, script, tag, application, profile; the page-level fallback
\* resolves the keywords of the page in the same order.
C16_Original ==
    /\ (/\ lastOp.op = "classify"
        /\ lastOp.path = "scanInputElements"
        /\ dom.hasLabel
        /\ CanonicalTypes(dom.label) = {}
        /\ KeywordTypes(dom.label) # {})
       => lastOp.entityType = FirstOf(KeywordTypes(dom.label))
    /\ (/\ lastOp.op = "classify"
        /\ lastOp.path = "forceScanAllElements"
        /\ KeywordTypes(pageText(dom)) # {})
       => lastOp.entityType = FirstOf(KeywordTypes(pageText(dom)))

\* C17 as stated: a control with no label, no keyword in its container and
\* none on the page is classified as application.
C17_Original ==
    (/\ lastOp.op = "classify"
     /\ lastOp.path \in ScanPaths
     /\ ~dom.hasLabel
     /\ dom.ancestor = {}
     /\ dom.page = {})
    => lastOp.entityType = "application"

---------------------------------------------------------------------------
(* SpecFaults: pages with a location whose inspection or annotation        *)
(* throws.                                                                 *)

\* L1 is an input whose id holds a double quote, or a UUID in the text of
\* an action context (.rule-summary, .panel-body); L2 holds another UUID in
\* an element of an action component, in a text or in an input
FaultLayouts ==
    {d \in [Locs -> [kind : {"quoted", "text", "element", "input"},
                     uuid : UUIDs]] :
        /\ d["L1"].kind \in {"quoted", "text"}
        /\ d["L1"].uuid = "u1"
        /\ d["L2"].kind \in {"element", "text", "input"}
        /\ d["L2"].uuid = "u2"}

InitSpecFaults ==
    InitPageWith([enabled : {TRUE}, cacheTimeout : {5 * Minute}],
                 FaultLayouts)

SpecFaults == InitSpecFaults /\ [][NextPage]_vars

\* C19 as stated: scanForUUIDs never throws, and the occurrences it has
\* found are returned to its caller whatever happens at a single node.
C19_Original == ~stats.threw /\ stats.lost = {}

\* C20 as stated: enhanceUI never rejects, and a failure at one occurrence
\* of a batch leaves no other occurrence of the batch without resolution.
C20_Original == ~stats.rejected /\ stats.dropped = {}

---------------------------------------------------------------------------
(* SpecTeardown: the host application removes elements while resolutions   *)
(* are in flight.                                                          *)

\* L1 is an input or an element that holds u1, L2 an element that holds u2
TeardownLayouts ==
    {d \in [Locs -> [kind : Kinds, uuid : UUIDs]] :
        /\ d["L1"].kind \in {"input", "element"}
        /\ d["L1"].uuid = "u1"
        /\ d["L2"] = [kind |-> "element", uuid |-> "u2"]}

InitSpecTeardown ==
    InitPageWith([enabled : {TRUE}, cacheTimeout : {5 * Minute}],
                 TeardownLayouts)

\* the most locations the host application removes
MaxTearDowns == 1

\* the host application removes the element of l ("none") or an ancestor
\* of it ("subtree") from the document, while the resolution of its UUID
\* is in flight
TearDown(l, how) ==
    /\ Attached(l) = "document"
    /\ \E i \in 1..Len(tasks) : tasks[i].cur.loc = l
    /\ Cardinality({m \in Locs : Attached(m) # "document"}) < MaxTearDowns
    /\ NoMicrotask
    /\ dom' = [dom EXCEPT ![l] = [kind |-> @.kind, uuid |-> @.uuid,
                                  attached |-> how]]
    /\ lastOp' = [op |-> "tearDown", loc |-> l]
    /\ UNCHANGED <<popup, toasts, now, cache, pending, calls, cleared, settings, phase,
                   registered, detectedUUIDs, processedElements, tasks,
                   nodes, stats, monitors>>

NextTeardown ==
    \/ NextPage
    \/ \E l \in Locs, how \in {"subtree", "none"} : TearDown(l, how)

SpecTeardown == InitSpecTeardown /\ [][NextTeardown]_vars

\* C21 as stated: no step inserts a marker or a tooltip for a location
\* that is no longer in the document; the result of its resolution is
\* discarded.
C21_Original ==
    [][\A l \in Locs :
          Attached(l) # "document" =>
              /\ nodes'[l].info <= nodes[l].info
              /\ nodes'[l].bare <= nodes[l].bare
              /\ nodes'[l].tooltip <= nodes[l].tooltip]_vars

---------------------------------------------------------------------------
(* The monitoring of inputs the host application populates after the       *)
(* delayed scans.                                                          *)

\* the pages: inputs outside the action components, without a value yet;
\* L1 is a resource input or a wrapped Angular input, L2 a resource input
MonitorLayouts ==
    {d \in [Locs -> [kind : Kinds, uuid : {EmptyValue}]] :
        /\ d["L1"].kind \in {"resource", "wrapped"}
        /\ d["L2"].kind = "resource"}

\* setupAdvancedAngularMonitoring(): the inputs that get a value poller;
\* input[id*="resource_uuid"] matches the resource inputs
advancedMonitored(kind) == kind = "resource"

\* the page more than 5 s after the content script was loaded, enabled: the
\* initial scan and the two delayed scans have run and found nothing, each
\* of them has set up the intensive monitoring of the resource inputs
InitSpecMonitor ==
    /\ now = 0
    /\ cache = EmptyCache
    /\ pending = [k \in Keys |-> 0]
    /\ calls = [k \in CallPairs |-> NoHistory]
    /\ cleared = FALSE
    /\ settings = [enabled |-> TRUE, cacheTimeout |-> 5 * Minute]
    /\ lastOp = [op |-> "load"]
    /\ phase = "readEnabled"
    /\ dom \in MonitorLayouts
    /\ registered = Registrations \ {"t3", "t5"}
    /\ detectedUUIDs = {}
    /\ processedElements = {}
    /\ tasks = <<>>
    /\ nodes = [l \in Locs |-> NoNodes]
    /\ stats = NoStats
    /\ monitors = setupIntensiveMonitoring(setupIntensiveMonitoring(
                      setupIntensiveMonitoring(NoMonitors)))
    /\ popup = <<>>
    /\ toasts = <<>>

\* the values the host application writes
PopulatedValues == {"u1", "u2"}

\* the host application sets the value property of an empty input
Populate(l, u) ==
    /\ dom[l].uuid = EmptyValue
    /\ dom' = [dom EXCEPT ![l].uuid = u]
    /\ monitors' = [monitors EXCEPT !.changed =
                       IF /\ "advancedAngularMonitoring" \in registered
                          /\ advancedMonitored(dom[l].kind)
                       THEN @ \cup {l} ELSE @]
    /\ lastOp' = [op |-> "populate", loc |-> l]
    /\ UNCHANGED <<popup, toasts, now, cache, pending, calls, cleared, settings, phase,
                   registered, detectedUUIDs, processedElements, tasks,
                   nodes, stats>>

\* handleAngularValueChange(input, value): the UUID is added to
\* detectedUUIDs; the timeout it sets calls enhanceUI only if
\* window.uiEnhancer is set
handleAngularValueChange(s, l) ==
    LET u == toLowerCase(dom[l].uuid)
    IN  IF ~uuidRegexTest(dom[l].uuid) \/ u \in s.detectedUUIDs THEN s
        ELSE LET s1 == [s EXCEPT !.detectedUUIDs = @ \cup {u}]
             IN  IF windowUiEnhancer
                 THEN handOver(s1, <<[loc |-> l, uuid |-> u,
                                      type |-> InferredType(dom[l].kind)]>>)
                 ELSE s1

\* the pollInterval of setupAngularValueMonitoring (every second) sees that
\* the value is not lastKnownValue
PollValue(l) ==
    /\ l \in monitors.changed
    /\ NoMicrotask
    /\ Apply([handleAngularValueChange(CurrentState, l) EXCEPT
                 !.monitors.changed = @ \ {l}])
    /\ lastOp' = [op |-> "pollValue", loc |-> l]
    /\ UNCHANGED <<popup, toasts, now, pending, calls, cleared, settings, dom, phase,
                   registered>>

\* a periodicCheck of setupIntensiveMonitoring finds a UUID in its input:
\* this.scanForUUIDs(), whose result nobody takes, then clearInterval
periodicCheck(s, l) ==
    LET r == scanForUUIDs(s.detectedUUIDs)
    IN  [s EXCEPT !.detectedUUIDs = r.detected,
                  !.stats.scans = @ + 1,
                  !.monitors = [setupIntensiveMonitoring(@) EXCEPT
                                   !.checks[l] = @ - 1]]

PeriodicCheck(l) ==
    /\ monitors.checks[l] > 0
    /\ uuidRegexTest(dom[l].uuid)
    /\ NoMicrotask
    /\ stats.scans < MaxScans
    /\ Apply(periodicCheck(CurrentState, l))
    /\ lastOp' = [op |-> "periodicCheck", loc |-> l]
    /\ UNCHANGED <<popup, toasts, now, pending, calls, cleared, settings, dom, phase,
                   registered>>

\* the sixtieth check of a periodicCheck whose input has no UUID:
\* clearInterval
CheckExpires(l) ==
    /\ monitors.checks[l] > 0
    /\ ~uuidRegexTest(dom[l].uuid)
    /\ monitors' = [monitors EXCEPT !.checks[l] = @ - 1]
    /\ lastOp' = [op |-> "checkExpires", loc |-> l]
    /\ UNCHANGED <<popup, toasts, now, cache, pending, calls, cleared, settings, phase, dom,
                   registered, detectedUUIDs, processedElements, tasks,
                   nodes, stats>>

NextMonitor ==
    \/ \E l \in Locs, u \in PopulatedValues : Populate(l, u)
    \/ \E l \in Locs : PollValue(l)
    \/ \E l \in Locs : PeriodicCheck(l)
    \/ \E l \in Locs : CheckExpires(l)
    \/ FrequentScan
    \/ \E i \in 1..MaxTasks, o \in Outcomes : ResolveSettled(i, o)

SpecMonitor == InitSpecMonitor /\ [][NextMonitor]_vars

\* a scan that is still scheduled (the frequent scan, a delayed scan) would
\* report an occurrence of the UUID when it ran now
ScheduledScanEmits(u) ==
    \/ /\ "frequentScan" \in registered
       /\ u \in EmittedUUIDs(scanReadonlyInputs(scanAngularDynamicInputs(
                   [found |-> <<>>, detected |-> detectedUUIDs,
                    threw |-> FALSE])).found)
    \/ /\ registered \cap {"t3", "t5"} # {}
       /\ u \in EmittedUUIDs(returned(scanForUUIDs(detectedUUIDs)))

\* C22 as stated: a UUID that appears in a scanned input after the initial
\* scan is detected and emitted as a new occurrence by the delayed or
\* periodic scans: as long as it has not been handed to enhanceUI, a scan
\* that is still scheduled would report it.
C22_Original ==
    \A l \in Locs :
        uuidRegexTest(dom[l].uuid) =>
            \/ toLowerCase(dom[l].uuid) \in stats.handed
            \/ ScheduledScanEmits(toLowerCase(dom[l].uuid))

\* C26 as stated: no detection is lost, no path records a UUID in
\* detectedUUIDs while dropping its occurrence: every recorded UUID has
\* been handed to enhanceUI.
C26_Original == detectedUUIDs \subseteq stats.handed

\* C27 as stated: the number of active periodic checks of an input does not
\* grow across rescans: once the initial and the delayed scans have set up
\* the monitoring, no step increases it.
C27_Original ==
    [][\A l \in Locs : monitors'.checks[l] <= monitors.checks[l]]_vars

---------------------------------------------------------------------------
\* the location carries a marker of a resolution
Annotated(n, l) == n[l].info + n[l].bare > 0

\* the locations whose occurrence an enhanceUI run is resolving or will
\* resolve
InProgress(ts) ==
    UNION {{ts[i].cur.loc} \cup Emitted(ts[i].rest) : i \in 1..Len(ts)}

\* C23 as stated: a refreshResolution request resolves every UUID afresh
\* that was annotated before it and is still in the document, and annotates
\* it again: the refresh hands every annotated location to enhanceUI.
C23_Original ==
    [][(lastOp'.op = "refreshResolution" /\ lastOp'.heard) =>
          \A l \in Locs :
              Annotated(nodes, l) => l \in InProgress(tasks')]_vars

---------------------------------------------------------------------------
(* The settings page (popup / side panel): auto-save.                      *)

\* what the user can type into a field; "b " is "b" followed by a blank
FormValues == {"a", "b", "b "}

\* String.prototype.trim
trim(v) == IF v = "b " THEN "b" ELSE v

\* collectSettings(): the settings made of the fields of the form
collectSettings(form) == trim(form)

\* the time of the page counts half seconds; the delay of the auto-save
\* timer is 1.5 s
AutoSaveDelay == 3

MaxPopupTime == 4
MaxEdits == 3
MaxSaves == 2

\* the page once loadSettings has put the stored settings into the form
\*   form, stored        the fields of the form, what chrome.storage holds
\*   autoSaveTimer       the id the variable holds (0: null)
\*   timers              the pending timeouts, [id, due]
\*   saves               the saves that wait for an answer, oldest first
\*   clock, lastChange   the time, and the time of the last input change
\*   edits, burst, fired input changes in all, and since the last save
\*                       that was started / timer-driven saves since the
\*                       last input change
InitPopup ==
    [form |-> "a", stored |-> "a", currentSettings |-> "a",
     hasUnsavedChanges |-> FALSE, autoSaveTimer |-> 0, timers |-> {},
     saves |-> <<>>, clock |-> 0, lastChange |-> 0, edits |-> 0,
     burst |-> 0, fired |-> 0]

\* clearTimeout(id)
clearTimeoutNone(timers, id) == timers

clearTimeout(timers, id) == {t \in timers : t.id # id}

\* handleInputChange()
handleInputChange(q, v) ==
    [q EXCEPT !.form = v,
              !.hasUnsavedChanges = TRUE,
              !.timers = clearTimeout(@, q.autoSaveTimer)
                             \cup {[id |-> q.edits + 1,
                                    due |-> q.clock + AutoSaveDelay]},
              !.autoSaveTimer = q.edits + 1,
              !.lastChange = q.clock,
              !.edits = @ + 1,
              !.burst = @ + 1,
              !.fired = 0]

\* autoSave() and handleSaveSettings(), up to the first await: the
\* settings are collected and sent to the background script
autoSave(q) ==
    [q EXCEPT !.saves = Append(@, [settings |-> collectSettings(q.form),
                                   stage |-> "background"]),
              !.burst = 0]

\* a save has succeeded
saved(q) ==
    [q EXCEPT !.stored = Head(q.saves).settings,
              !.currentSettings = Head(q.saves).settings,
              !.hasUnsavedChanges = FALSE,
              !.saves = Tail(@)]

InitSpecPopup ==
    /\ InitPage
    /\ now = 0
    /\ cache = EmptyCache
    /\ pending = [k \in Keys |-> 0]
    /\ calls = [k \in CallPairs |-> NoHistory]
    /\ cleared = FALSE
    /\ settings = [enabled |-> TRUE, cacheTimeout |-> 5 * Minute]
    /\ lastOp = [op |-> "load"]
    /\ popup = InitPopup
    /\ toasts = <<>>

PopupUnchanged ==
    UNCHANGED <<toasts, now, cache, pending, calls, cleared, settings, phase,
                dom, registered, detectedUUIDs, processedElements, tasks,
                nodes, stats, monitors>>

\* half a second passes; a timeout that is due runs first
PopupTick ==
    /\ popup.clock < MaxPopupTime
    /\ \A t \in popup.timers : t.due > popup.clock
    /\ popup' = [popup EXCEPT !.clock = @ + 1]
    /\ lastOp' = [op |-> "popupTick"]
    /\ PopupUnchanged

\* an input or change event of a field
HandleInputChange(v) ==
    /\ popup.edits < MaxEdits
    /\ v # popup.form
    /\ popup' = handleInputChange(popup, v)
    /\ lastOp' = [op |-> "inputChange"]
    /\ PopupUnchanged

\* the auto-save timeout runs: autoSave()
AutoSaveTimer(id) ==
    /\ [id |-> id, due |-> popup.clock] \in popup.timers
    /\ Len(popup.saves) < MaxSaves
    /\ popup' = [autoSave([popup EXCEPT
                              !.timers = @ \ {[id |-> id,
                                               due |-> popup.clock]}])
                 EXCEPT !.fired = @ + 1]
    /\ lastOp' = [op |-> "autoSaveTimer", at |-> popup.clock,
                  lastChange |-> popup.lastChange, burst |-> popup.burst]
    /\ PopupUnchanged

\* handleInputBlur(), and the blur and visibilitychange listeners of
\* setupAutoSaveOnClose: with unsaved changes, clearTimeout and autoSave()
SaveNow(how) ==
    /\ popup.hasUnsavedChanges
    /\ Len(popup.saves) < MaxSaves
    /\ popup' = autoSave([popup EXCEPT
                             !.timers = clearTimeout(@, popup.autoSaveTimer)])
    /\ lastOp' = [op |-> how]
    /\ PopupUnchanged

\* handleSaveSettings(): the Save button
HandleSaveSettings ==
    /\ Len(popup.saves) < MaxSaves
    /\ popup' = autoSave(popup)
    /\ lastOp' = [op |-> "saveBtn"]
    /\ PopupUnchanged

\* the background script answers the oldest save: success, or no success
\* (or no answer at all), and then saveSettingsDirectly(settings)
SaveResponds(success) ==
    /\ popup.saves # <<>>
    /\ Head(popup.saves).stage = "background"
    /\ popup' = IF success THEN saved(popup)
                ELSE [popup EXCEPT !.saves[1].stage = "direct"]
    /\ lastOp' = [op |-> "saveResponds", success |-> success]
    /\ PopupUnchanged

\* chrome.storage.sync.set calls back: without or with lastError; the catch
\* of a failed save shows the error and leaves the flag
DirectSaveSettles(ok) ==
    /\ popup.saves # <<>>
    /\ Head(popup.saves).stage = "direct"
    /\ popup' = IF ok THEN saved(popup)
                ELSE [popup EXCEPT !.saves = Tail(@)]
    /\ lastOp' = [op |-> "directSave", ok |-> ok]
    /\ PopupUnchanged

NextPopup ==
    \/ PopupTick
    \/ \E v \in FormValues : HandleInputChange(v)
    \/ \E id \in 1..MaxEdits : AutoSaveTimer(id)
    \/ \E how \in {"inputBlur", "windowBlur", "visibilitychange"} : SaveNow(how)
    \/ HandleSaveSettings
    \/ \E b \in BOOLEAN : SaveResponds(b)
    \/ \E b \in BOOLEAN : DirectSaveSettles(b)

SpecPopup == InitSpecPopup /\ [][NextPopup]_vars

\* C24: the auto-save is debounced: at most one timeout is pending; the
\* timeout that runs autoSave runs 1.5 s after the last input change, and
\* only one does so after a change.
C24_AutoSaveDebounced ==
    /\ Cardinality(popup.timers) <= 1
    /\ popup.fired <= 1
    /\ lastOp.op = "autoSaveTimer" =>
           lastOp.at = lastOp.lastChange + AutoSaveDelay

\* a burst of two or more changes has been followed by its auto-save
C24_Witness == lastOp.op = "autoSaveTimer" /\ lastOp.burst >= 2

\* C28 as stated: whenever the form differs from the settings last
\* persisted, hasUnsavedChanges is true (the completion of a save does not
\* clear the flag of an edit made after the save collected its settings).
C28_Original ==
    collectSettings(popup.form) # popup.stored => popup.hasUnsavedChanges

---------------------------------------------------------------------------
(* The toasts of the content script.                                       *)

\* the levels a displayExtensionMessage message names
Levels == {"info", "success", "error", "warning"}

MaxToasts == 3

\* the indices of the toasts .uuid-resolver-toast.info selects
InfoToasts(ts) == {i \in 1..Len(ts) : ts[i].level = "info"}

RECURSIVE Without(_, _)
\* the sequence without the elements at the indices of I
Without(ts, I) ==
    IF ts = <<>> THEN <<>>
    ELSE LET rest == Without(SubSeq(ts, 1, Len(ts) - 1), I)
         IN  IF Len(ts) \in I THEN rest ELSE Append(rest, ts[Len(ts)])

dismissNone(ts) == ts

\* dismissInfoToasts()
dismissInfoToasts(ts) == Without(ts, InfoToasts(ts))

\* showToast(title, body, level, timeout, persist)
showToast(ts, level, persist) ==
    Append(ts, [level |-> level, persist |-> persist])

InitSpecToasts ==
    /\ InitPage
    /\ now = 0
    /\ cache = EmptyCache
    /\ pending = [k \in Keys |-> 0]
    /\ calls = [k \in CallPairs |-> NoHistory]
    /\ cleared = FALSE
    /\ settings = [enabled |-> TRUE, cacheTimeout |-> 5 * Minute]
    /\ lastOp = [op |-> "load"]
    /\ popup = <<>>
    /\ toasts = <<>>

ToastsUnchanged ==
    UNCHANGED <<popup, now, cache, pending, calls, cleared, settings, phase,
                dom, registered, detectedUUIDs, processedElements, tasks,
                nodes, stats, monitors>>

\* the listener gets a displayResolvedEntity message, with or without data
DisplayResolvedEntity(hasData) ==
    /\ Len(toasts) < MaxToasts
    /\ toasts' = IF hasData
                 THEN showToast(dismissInfoToasts(toasts), "success", TRUE)
                 ELSE toasts
    /\ lastOp' = [op |-> "displayResolvedEntity", data |-> hasData,
                  infos |-> Cardinality(InfoToasts(toasts))]
    /\ ToastsUnchanged

\* the listener gets a displayExtensionMessage message
DisplayExtensionMessage(level, persist) ==
    /\ Len(toasts) < MaxToasts
    /\ toasts' = showToast(IF level \in {"success", "error"}
                           THEN dismissInfoToasts(toasts) ELSE toasts,
                           level, persist)
    /\ lastOp' = [op |-> "displayExtensionMessage", level |-> level,
                  infos |-> Cardinality(InfoToasts(toasts))]
    /\ ToastsUnchanged

\* the timeout of a toast that does not persist: el.remove()
ToastTimeout(i) ==
    /\ i \in 1..Len(toasts)
    /\ ~toasts[i].persist
    /\ toasts' = Without(toasts, {i})
    /\ lastOp' = [op |-> "toastTimeout"]
    /\ ToastsUnchanged

\* a click on the close button of a toast
CloseToast(i) ==
    /\ i \in 1..Len(toasts)
    /\ toasts' = Without(toasts, {i})
    /\ lastOp' = [op |-> "closeToast"]
    /\ ToastsUnchanged

NextToasts ==
    \/ \E b \in BOOLEAN : DisplayResolvedEntity(b)
    \/ \E l \in Levels, b \in BOOLEAN : DisplayExtensionMessage(l, b)
    \/ \E i \in 1..MaxToasts : ToastTimeout(i)
    \/ \E i \in 1..MaxToasts : CloseToast(i)

SpecToasts == InitSpecToasts /\ [][NextToasts]_vars

\* C30 as stated: after a displayResolvedEntity message, or a
\* displayExtensionMessage message of level success or error, has been
\* handled, no info toast remains.
C30_Original ==
    (\/ lastOp.op = "displayResolvedEntity"
     \/ /\ lastOp.op = "displayExtensionMessage"
        /\ lastOp.level \in {"success", "error"})
        => InfoToasts(toasts) = {}

\* C30, amended: after a displayResolvedEntity message that carries data,
\* or a displayExtensionMessage message of level success or error, has been
\* handled, no info toast remains.
C30_Amended ==
    (\/ lastOp.op = "displayResolvedEntity" /\ lastOp.data
     \/ /\ lastOp.op = "displayExtensionMessage"
        /\ lastOp.level \in {"success", "error"})
        => InfoToasts(toasts) = {}

\* a result was shown while an info toast was in the container
C30_Witness ==
    /\ lastOp.op = "displayResolvedEntity"
    /\ lastOp.data
    /\ lastOp.infos > 0

---------------------------------------------------------------------------
\* C25 as stated: concurrent resolveUUID calls for the same pair reuse the
\* request in flight: at most one request per pair is outstanding.
C25_Original == \A k \in Keys : pending[k] <= 1

\* C29 as stated: the loading indicator of an occurrence is removed when
\* its resolution completes, with or without success: whenever no
\* resolution is in flight, no loading indicator remains.
C29_Original ==
    tasks = <<>> => \A l \in Locs : nodes[l].loading = 0

=============================================================================
